---- MODULE Spec2Model ----
(***************************************************************************)
(* Risk-controlled execution layer (src/execution.py, OrderManager) and    *)
(* the engine loop that drives it (src/bot.py, run_bot).                   *)
(*                                                                         *)
(* Units: prices are in cents per share (40 = 0.40), P&L is in cents, so   *)
(* every float of the source is an exact integer here.                     *)
(*                                                                         *)
(* run_bot constructs execution.ExecutionEngine and calls                  *)
(* CSVLogger.log_trade_executed; src/ holds OrderManager and a CSVLogger   *)
(* without that method.  The loop uses only cancel_all_orders,             *)
(* circuit_breaker_tripped, session_pnl, record_pnl and                    *)
(* place_post_only_limit_order of its engine, all of which OrderManager    *)
(* defines, so the engine object is modelled by OrderManager; the CSV      *)
(* writes are logging only and the P&L of a resolved position is the       *)
(* value computed in src/analytics.py lines 109-117.                       *)
(***************************************************************************)
EXTENDS Integers, Sequences, FiniteSets, TLC

(* ----------------------------- bounds ---------------------------------- *)
MaxDay == 2
MaxCalls == 1
MaxPnlSteps == 2
MaxPositions == 2
\* receive-loop threads one feed object spawns over its life
MaxLoops == 2
\* Markets in one event of the Discovery API.
MaxMarkets == 3

(* ------------------------ program constants ---------------------------- *)
CIRCUIT_BREAKER_LOSS_USD == 50
\* The constructor's inventory caps (config names missing from src/config.py).
max_inventory_yes == 1
max_inventory_no == 1
\* The constructor's mid_drift_threshold, in cents (its config name is
\* missing from src/config.py as well).
mid_drift_threshold == 2

\* circuit_breaker_loss_usd, in cents.
circuit_breaker_loss == CIRCUIT_BREAKER_LOSS_USD * 100

\* src/binance_feed.py:20-22 and src/order_book_feed.py:19-21 (seconds).
BACKOFF_BASE_SEC == 1
BACKOFF_MAX_SEC == 120
BACKOFF_MULTIPLIER == 2
BACKOFF_BASE == 1
BACKOFF_MAX == 60
BACKOFF_MULT == 2

\* src/config.py:21-24: the notional in dollars, the jump threshold in
\* hundredths of a percent (0.1 %) and the EV threshold in hundredths (1.02).
POSITION_SIZE_USD == 10
BINANCE_JUMP_THRESHOLD_PCT == 10
EV_THRESHOLD == 102

\* start()'s polls for a first value (binance_feed.py:108,
\* order_book_feed.py:138).
TickerStartPolls == 50
BookStartPolls == 100

(* ------------------------------ inputs --------------------------------- *)
\* P&L deltas handed to record_pnl: a loss of half the daily limit, an
\* unknown resolution (0) and a win of the same size.
Deltas == {0 - 2500, 0, 2500}
PnlCap == MaxPnlSteps * 2500
Prices == {40, 60}
Sizes == {1}
FillSizes == {1, 2}
Mids == {50}
\* Mids handed to set_last_mid and should_requote where quoting is examined:
\* their distances cover the threshold itself, less and more.
QuoteMids == {48, 49, 50, 53}
Outcomes == {"Yes", "No", ""}
\* The collaborator accepts the order, or create_order/post_order raises.
ClientReplies == {"ok", "raises"}

\* Venue ids the scanner can report (market_id; the Discovery API's market
\* objects carry an identifier, so the empty id is not among them).
Venues == {"A", "B"}
\* TradeSignal.price and .size a strategy check can emit: 50 or 100 shares
\* at 0.50 (a loss of half the daily limit, or of all of it).
Signals == {[price |-> 50, size |-> 50], [price |-> 50, size |-> 100]}

\* Optional[T]: None is the empty tuple, a value v is <<v>>.
None == <<>>
Some(v) == <<v>>

VARIABLES
    \* OrderManager fields (src/execution.py:44-52)
    session_pnl, daily_pnl, daily_reset_date, circuit_breaker_tripped,
    inventory_yes, inventory_no, last_mid_price, active_yes_bid, active_no_bid,
    \* environment: the UTC date, and the order-submission collaborator's
    \* view (create_order calls received, orders posted)
    today, create_calls, posted,
    \* the value returned by the last place_post_only_limit_order call
    placed,
    \* history: sum of the deltas recorded during the current UTC day
    day_sum,
    \* run_bot locals (src/bot.py)
    pc, last_market_id, state_market, market, resolution, idx,
    pending_positions, state_circuit_breaker,
    \* history of the engine loop
    ledger, trip_carried,
    \* a feed (src/binance_feed.py, src/order_book_feed.py): which class it
    \* is, _running, the backoff delay, self._ws (as the loop that created
    \* it), self._thread, and the position of each receive loop
    kind, running, backoff, ws_owner, thread_ref, loops,
    \* the thread calling start()/stop(): its position and start()'s polls
    caller, polls,
    \* BinancePriceFeed._price (feed_price) and _prev_price, OrderBookFeed._best_bid/_best_ask/
    \* _mid_price
    feed_price, prev_price, best_bid, best_ask, mid_price,
    \* the payload of the last _on_message call, how the call ended and
    \* whether it invoked the on-update callback
    last_msg, msg_outcome, cb_invoked,
    \* history: the delay the backoff rule prescribes for the next connection
    \* failure (base after start() or a message parsed without error, doubled
    \* up to the ceiling after each failure), and whether the stop() in
    \* progress began on a feed that was already stopped
    due_delay, stop_repeat,
    \* observations of single calls: whether the last client.cancel_all()
    \* raised (None before any call), the argument of the last
    \* should_requote call and the value it returned
    cancel_raised, current_mid, requote,
    \* the arguments of the last check_signal call and the TradeSignal (or
    \* None) it returned
    check_args, signal,
    \* the event and the time handed to the last
    \* _get_active_market_from_event call and the ActiveMarket (or None) it
    \* returned
    event, active_market,
    \* the Gamma API's answer to the last get_market_resolution call and how
    \* the call ended: "raised", or the Optional[bool] returned
    answer, verdict,
    \* the arguments of the last evaluation of the symmetrical quote pair
    \* and the intents it emitted
    quote_args, quotes,
    \* the threads calling into one OrderManager: per thread the operation
    \* under way, its argument, the step it is at and the value it has read
    threads,
    \* how client.cancel_all() ended in the cancel_all_orders call of
    \* run_bot's finally block (None: the block has not run)
    final_cancel

omVars == <<session_pnl, daily_pnl, daily_reset_date, circuit_breaker_tripped,
            inventory_yes, inventory_no, last_mid_price, active_yes_bid,
            active_no_bid>>
riskFields == <<session_pnl, daily_pnl, daily_reset_date, inventory_yes,
                inventory_no, last_mid_price, active_yes_bid, active_no_bid>>
clientVars == <<create_calls, posted>>
botVars == <<pc, last_market_id, state_market, market, resolution, idx,
             pending_positions, state_circuit_breaker, ledger, trip_carried>>
feedState == <<feed_price, prev_price, best_bid, best_ask, mid_price>>
feedVars == <<kind, running, backoff, ws_owner, thread_ref, loops, caller,
              polls, feedState, last_msg, msg_outcome, cb_invoked, due_delay,
              stop_repeat>>
\* run_bot starts and stops its feed; of the feed it is modelled with, only
\* the running flag follows.
feedRest == <<kind, backoff, ws_owner, thread_ref, loops, caller, polls,
              feedState, last_msg, msg_outcome, cb_invoked, due_delay,
              stop_repeat>>
\* The constants of the feed's class.
Base == IF kind = "ticker" THEN BACKOFF_BASE_SEC ELSE BACKOFF_BASE
Ceiling == IF kind = "ticker" THEN BACKOFF_MAX_SEC ELSE BACKOFF_MAX
Multiplier == IF kind = "ticker" THEN BACKOFF_MULTIPLIER ELSE BACKOFF_MULT
PollLimit == IF kind = "ticker" THEN TickerStartPolls ELSE BookStartPolls

observed == <<cancel_raised, current_mid, requote, check_args, signal,
              event, active_market, answer, verdict, quote_args, quotes>>
callVars == <<observed, threads, final_cancel>>
engineSide == <<omVars, today, clientVars, placed, day_sum, botVars, callVars>>
vars == <<omVars, today, clientVars, placed, day_sum, botVars, feedVars,
          callVars>>

(* --------------------------- OrderManager ------------------------------ *)

\* Mutant: the reset fires on the first access only, the date is not compared.
ResetDailyPnlFirstOnly == IF daily_reset_date = None THEN 0 ELSE daily_pnl

\* _reset_daily_if_needed: the accumulator and the date after the call.
ResetDailyPnl == IF daily_reset_date = None \/ daily_reset_date # Some(today)
                 THEN 0 ELSE daily_pnl
ResetDailyDate == Some(today)

\* Mutant: the limit itself does not trip.
TripConditionStrict(daily) == daily < 0 - circuit_breaker_loss

\* The trip condition of record_pnl on the accumulator after the add.
TripCondition(daily) == daily <= 0 - circuit_breaker_loss

\* Mutant: the flag follows the condition instead of latching.
TrippedAfterNoLatch(daily) == daily <= 0 - circuit_breaker_loss

\* The latch after record_pnl: set on the condition, never cleared.
TrippedAfter(daily) == circuit_breaker_tripped \/ TripCondition(daily)

\* record_pnl(pnl): the OrderManager fields it writes.
record_pnl(pnl) ==
    /\ session_pnl' = session_pnl + pnl
    /\ daily_pnl' = ResetDailyPnl + pnl
    /\ daily_reset_date' = ResetDailyDate
    /\ circuit_breaker_tripped' = TrippedAfter(ResetDailyPnl + pnl)
    /\ day_sum' = day_sum + pnl
    /\ UNCHANGED <<inventory_yes, inventory_no, last_mid_price,
                   active_yes_bid, active_no_bid>>

\* The daily_pnl property: a read that resets first.
read_daily_pnl ==
    /\ daily_pnl' = ResetDailyPnl
    /\ daily_reset_date' = ResetDailyDate
    /\ UNCHANGED <<session_pnl, circuit_breaker_tripped, inventory_yes,
                   inventory_no, last_mid_price, active_yes_bid,
                   active_no_bid, day_sum>>

\* record_fill(outcome, size, price)
record_fill(outcome, size) ==
    /\ IF outcome = "Yes"
       THEN inventory_yes' = inventory_yes + size /\ UNCHANGED inventory_no
       ELSE inventory_no' = inventory_no + size /\ UNCHANGED inventory_yes
    /\ UNCHANGED <<session_pnl, daily_pnl, daily_reset_date,
                   circuit_breaker_tripped, last_mid_price, active_yes_bid,
                   active_no_bid, day_sum>>

\* set_last_mid(mid)
set_last_mid(mid) ==
    /\ last_mid_price' = Some(mid)
    /\ UNCHANGED <<session_pnl, daily_pnl, daily_reset_date,
                   circuit_breaker_tripped, inventory_yes, inventory_no,
                   active_yes_bid, active_no_bid, day_sum>>

\* should_requote(current_mid): the value returned; no field is written.
\* Mutant: drift equal to the threshold asks for a requote too.
should_requote_inclusive(mid) ==
    \/ last_mid_price = None
    \/ (IF mid >= last_mid_price[1] THEN mid - last_mid_price[1]
                                    ELSE last_mid_price[1] - mid)
           >= mid_drift_threshold

should_requote(mid) ==
    \/ last_mid_price = None
    \/ (IF mid >= last_mid_price[1] THEN mid - last_mid_price[1]
                                    ELSE last_mid_price[1] - mid)
           > mid_drift_threshold

\* Mutant: the Yes side may be quoted whatever its inventory.
can_quote_yes_always == TRUE

can_quote_yes == inventory_yes < max_inventory_yes
can_quote_no == inventory_no < max_inventory_no

\* cancel_all_orders: client.cancel_all() answers or raises; the exception
\* is caught and the locally tracked orders are then left as they were.
cancel_all_orders(cancelRaises) ==
    /\ IF cancelRaises
       THEN UNCHANGED <<active_yes_bid, active_no_bid>>
       ELSE active_yes_bid' = None /\ active_no_bid' = None
    /\ UNCHANGED <<session_pnl, daily_pnl, daily_reset_date,
                   circuit_breaker_tripped, inventory_yes, inventory_no,
                   last_mid_price, day_sum>>

\* Mutant: the gate is missing.
PlaceBlockedNever == FALSE

\* The breaker gate at the head of place_post_only_limit_order.
PlaceBlocked == circuit_breaker_tripped

\* place_post_only_limit_order(token_id, side, price, size, outcome) against
\* a collaborator that answers `reply`.
place_post_only_limit_order(price, size, outcome, reply) ==
    IF PlaceBlocked
    THEN /\ placed' = FALSE
         /\ UNCHANGED <<omVars, clientVars, day_sum>>
    ELSE /\ create_calls' = create_calls + 1
         /\ posted' = IF reply = "ok" THEN posted + 1 ELSE posted
         /\ placed' = (reply = "ok")
         /\ active_yes_bid' = IF reply = "ok" /\ outcome = "Yes"
                              THEN <<price, size>> ELSE active_yes_bid
         /\ active_no_bid' = IF reply = "ok" /\ outcome = "No"
                             THEN <<price, size>> ELSE active_no_bid
         /\ UNCHANGED <<session_pnl, daily_pnl, daily_reset_date,
                        circuit_breaker_tripped, inventory_yes, inventory_no,
                        last_mid_price, day_sum>>

InitOrderManager ==
    /\ session_pnl = 0
    /\ daily_pnl = 0
    /\ daily_reset_date = None
    /\ circuit_breaker_tripped = FALSE
    /\ inventory_yes = 0
    /\ inventory_no = 0
    /\ last_mid_price = None
    /\ active_yes_bid = None
    /\ active_no_bid = None

InitEnv ==
    /\ today = 1
    /\ create_calls = 0
    /\ posted = 0
    /\ placed = FALSE
    /\ day_sum = 0

\* No call observed yet.
InitCallsIdle ==
    /\ cancel_raised = None
    /\ current_mid = None
    /\ requote = None
    /\ check_args = None
    /\ signal = None
    /\ event = None
    /\ active_market = None
    /\ answer = None
    /\ verdict = None
    /\ quote_args = None
    /\ quotes = <<>>
    /\ threads = <<>>
    /\ final_cancel = None

\* A feed as constructed (binance_feed.py:27-37, order_book_feed.py:27-45),
\* with no receive loop yet.
NewFeed ==
    /\ running = FALSE
    /\ backoff = Base
    /\ ws_owner = 0
    /\ thread_ref = 0
    /\ loops = [i \in 1..MaxLoops |-> "unborn"]
    /\ caller = "idle"
    /\ polls = 0
    /\ feed_price = None
    /\ prev_price = None
    /\ best_bid = None
    /\ best_ask = None
    /\ mid_price = None
    /\ last_msg = None
    /\ msg_outcome = "none"
    /\ cb_invoked = FALSE
    /\ due_delay = Base
    /\ stop_repeat = FALSE

InitFeedIdle == kind = "ticker" /\ NewFeed

\* The UTC date advances (midnight passes).
DayRollover ==
    /\ today < MaxDay
    /\ today' = today + 1
    /\ day_sum' = 0
    /\ UNCHANGED <<feedVars, callVars, omVars, clientVars, placed, botVars>>

(* ------------- OrderManager driven by an arbitrary caller -------------- *)

InitBotIdle ==
    /\ pc = "idle"
    /\ last_market_id = None
    /\ state_market = None
    /\ market = None
    /\ resolution = None
    /\ idx = 0
    /\ pending_positions = <<>>
    /\ state_circuit_breaker = FALSE
    /\ ledger = <<>>
    /\ trip_carried = FALSE

Init == InitOrderManager /\ InitEnv /\ InitCallsIdle /\ InitBotIdle /\ InitFeedIdle

RecordPnl ==
    \E d \in Deltas :
        /\ session_pnl + d <= PnlCap
        /\ session_pnl + d >= 0 - PnlCap
        /\ record_pnl(d)
        /\ UNCHANGED <<feedVars, callVars, today, clientVars, placed, botVars>>

ReadDailyPnl ==
    /\ read_daily_pnl
    /\ UNCHANGED <<feedVars, callVars, today, clientVars, placed, botVars>>

RecordFill ==
    \E o \in {"Yes", "No"}, s \in FillSizes :
        \* fills up to one share past the caps
        /\ inventory_yes + inventory_no + s <= max_inventory_yes + max_inventory_no
        /\ record_fill(o, s)
        /\ UNCHANGED <<feedVars, callVars, today, clientVars, placed, botVars>>

SetLastMid ==
    \E m \in Mids :
        /\ set_last_mid(m)
        /\ UNCHANGED <<feedVars, callVars, today, clientVars, placed, botVars>>

CancelAll ==
    \E r \in BOOLEAN :
        /\ cancel_all_orders(r)
        /\ UNCHANGED <<feedVars, callVars, today, clientVars, placed, botVars>>

PlaceOrder ==
    \E p \in Prices, s \in Sizes, o \in Outcomes, r \in ClientReplies :
        /\ create_calls < MaxCalls \/ PlaceBlocked
        /\ place_post_only_limit_order(p, s, o, r)
        /\ UNCHANGED <<feedVars, callVars, today, botVars>>

Next ==
    \/ RecordPnl
    \/ ReadDailyPnl
    \/ RecordFill
    \/ SetLastMid
    \/ CancelAll
    \/ PlaceOrder
    \/ DayRollover

Spec == Init /\ [][Next]_vars

(* ----------------- OrderManager's quoting operations ------------------- *)
\* The resting orders and the requote test, each call observed: place,
\* cancel_all_orders, set_last_mid and should_requote in any order.

SetQuoteMid ==
    \E m \in QuoteMids :
        /\ set_last_mid(m)
        /\ UNCHANGED <<feedVars, callVars, today, clientVars, placed, botVars>>

\* should_requote(m) is called and its value kept.
ShouldRequote ==
    \E m \in QuoteMids :
        /\ current_mid' = Some(m)
        /\ requote' = Some(should_requote(m))
        /\ UNCHANGED <<feedVars, threads, final_cancel, quote_args, quotes,
                       cancel_raised, check_args, signal, event,
                       active_market, answer, verdict, omVars, today,
                       clientVars, placed, day_sum, botVars>>

\* cancel_all_orders() against a client whose cancel_all() answers or raises.
CancelQuotes ==
    \E r \in BOOLEAN :
        /\ cancel_all_orders(r)
        /\ cancel_raised' = Some(r)
        /\ UNCHANGED <<feedVars, threads, final_cancel, quote_args, quotes,
                       current_mid, requote, check_args, signal,
                       event, active_market, answer, verdict, today,
                       clientVars, placed, botVars>>

NextQuote ==
    \/ PlaceOrder
    \/ CancelQuotes
    \/ SetQuoteMid
    \/ ShouldRequote

SpecQuote == Init /\ [][NextQuote]_vars

(* --------------- OrderManager called from several threads -------------- *)
\* record_pnl and the daily_pnl property take no lock, so calls from two
\* threads interleave between the reads and writes of the fields: each
\* `+=` is a read followed by a write, _reset_daily_if_needed a test
\* followed by two writes.  A thread makes one call.
ThreadIds == {1, 2}
Frame(op, pnl, at, tmp) == [op |-> op, pnl |-> pnl, at |-> at, tmp |-> tmp]

InitThreads ==
    /\ InitOrderManager /\ InitEnv /\ InitBotIdle /\ InitFeedIdle
    /\ cancel_raised = None /\ current_mid = None /\ requote = None
    /\ check_args = None /\ signal = None /\ event = None
    /\ active_market = None /\ answer = None /\ verdict = None
    /\ quote_args = None /\ quotes = <<>>
    /\ threads = [t \in ThreadIds |-> Frame("none", 0, "idle", 0)]
    /\ final_cancel = None

threadFrame == <<feedVars, observed, final_cancel, inventory_yes, inventory_no,
                 last_mid_price, active_yes_bid, active_no_bid, today,
                 clientVars, placed, botVars>>

\* Thread t enters record_pnl(d) or reads daily_pnl.
ThreadCall(t) ==
    /\ threads[t].at = "idle"
    /\ \/ \E d \in Deltas :
             /\ threads' = [threads EXCEPT ![t] = Frame("record_pnl", d, "load_session", 0)]
             /\ day_sum' = day_sum + d
       \/ /\ threads' = [threads EXCEPT ![t] = Frame("daily_pnl", 0, "test_date", 0)]
          /\ UNCHANGED day_sum
    /\ UNCHANGED <<session_pnl, daily_pnl, daily_reset_date,
                   circuit_breaker_tripped, threadFrame>>

\* The next read, test or write of thread t's call.
ThreadStep(t) ==
    LET f == threads[t]
        goto(at) == threads' = [threads EXCEPT ![t].at = at]
    IN
    /\ f.at \notin {"idle", "done"}
    /\ CASE f.at = "load_session" ->
              /\ threads' = [threads EXCEPT ![t].at = "store_session",
                                            ![t].tmp = session_pnl]
              /\ UNCHANGED <<session_pnl, daily_pnl, daily_reset_date,
                             circuit_breaker_tripped>>
         [] f.at = "store_session" ->
              /\ session_pnl' = f.tmp + f.pnl
              /\ goto("test_date")
              /\ UNCHANGED <<daily_pnl, daily_reset_date,
                             circuit_breaker_tripped>>
         [] f.at = "test_date" ->
              /\ goto(IF daily_reset_date = None
                         \/ daily_reset_date # Some(today)
                      THEN "zero_daily"
                      ELSE IF f.op = "record_pnl" THEN "load_daily"
                      ELSE "done")
              /\ UNCHANGED <<session_pnl, daily_pnl, daily_reset_date,
                             circuit_breaker_tripped>>
         [] f.at = "zero_daily" ->
              /\ daily_pnl' = 0
              /\ goto("set_date")
              /\ UNCHANGED <<session_pnl, daily_reset_date,
                             circuit_breaker_tripped>>
         [] f.at = "set_date" ->
              /\ daily_reset_date' = Some(today)
              /\ goto(IF f.op = "record_pnl" THEN "load_daily" ELSE "done")
              /\ UNCHANGED <<session_pnl, daily_pnl,
                             circuit_breaker_tripped>>
         [] f.at = "load_daily" ->
              /\ threads' = [threads EXCEPT ![t].at = "store_daily",
                                            ![t].tmp = daily_pnl]
              /\ UNCHANGED <<session_pnl, daily_pnl, daily_reset_date,
                             circuit_breaker_tripped>>
         [] f.at = "store_daily" ->
              /\ daily_pnl' = f.tmp + f.pnl
              /\ goto("test_limit")
              /\ UNCHANGED <<session_pnl, daily_reset_date,
                             circuit_breaker_tripped>>
         [] f.at = "test_limit" ->
              /\ circuit_breaker_tripped' = TrippedAfter(daily_pnl)
              /\ goto("done")
              /\ UNCHANGED <<session_pnl, daily_pnl, daily_reset_date>>
    /\ UNCHANGED <<day_sum, threadFrame>>

NextThreads == \E t \in ThreadIds : ThreadCall(t) \/ ThreadStep(t)

SpecThreads == InitThreads /\ [][NextThreads]_vars

(* ------------------------------ run_bot -------------------------------- *)

\* scanner.get_active_market(): no market, or a market of some venue.  The
\* scanner only returns markets that accept orders, so accepting_orders is
\* true of every market the loop holds and is not carried.
ScannerResults == {None} \cup {Some(v) : v \in Venues}

\* scanner.get_market_resolution(): yes won, no won, or unresolved/unknown.
Resolutions == {Some(TRUE), Some(FALSE), None}

\* CSVLogger.log_market_resolved: the P&L (cents) of a Yes position.
log_market_resolved(share_price_bought, size, result_yes_won) ==
    IF result_yes_won = Some(TRUE) THEN size * (100 - share_price_bought)
    ELSE IF result_yes_won = Some(FALSE) THEN 0 - size * share_price_bought
    ELSE 0

\* `key in pending_positions`: the defaultdict holds a key from the first
\* append under it until it is popped, i.e. exactly while its list is
\* non-empty.
HasKey(v) == pending_positions[v] # <<>>

InitBot ==
    /\ pc = "start"
    /\ last_market_id = None
    /\ state_market = None
    /\ market = None
    /\ resolution = None
    /\ idx = 0
    /\ pending_positions = [v \in Venues |-> <<>>]
    /\ state_circuit_breaker = FALSE
    /\ ledger = <<>>
    /\ trip_carried = FALSE

InitEngine == InitOrderManager /\ InitEnv /\ InitCallsIdle /\ InitBot /\ InitFeedIdle

\* Lines 270-274, the finally block: feed.stop(), then
\* engine.cancel_all_orders(), which returns whether or not the client
\* raised.
\* Mutant: run_bot is left without the block.
FinallyMissing == UNCHANGED <<feedVars, callVars, omVars, day_sum>>

Finally ==
    /\ running' = FALSE
    /\ \E r \in BOOLEAN : cancel_all_orders(r) /\ final_cancel' = Some(r)
    /\ UNCHANGED <<feedRest, observed, threads>>

\* Lines 124-147: cancel stale orders, start the feed, find the initial
\* market or stop the feed and exit.
Startup ==
    /\ pc = "start"
    /\ \E r \in BOOLEAN : cancel_all_orders(r)
    /\ \E m \in ScannerResults :
          /\ market' = m
          /\ running' = (m # None)
          /\ IF m = None
             THEN pc' = "no_market" /\ UNCHANGED <<state_market, last_market_id>>
             ELSE pc' = "tick" /\ state_market' = m /\ last_market_id' = m
    /\ UNCHANGED <<feedRest, callVars, today, clientVars, placed, resolution, idx,
                   pending_positions, state_circuit_breaker, ledger,
                   trip_carried>>

\* Mutant: the breaker is shown on the dashboard but the loop goes on.
CheckBreakerNoBreak ==
    /\ pc = "tick"
    /\ state_circuit_breaker' = circuit_breaker_tripped
    /\ pc' = "poll"
    /\ UNCHANGED <<feedVars, callVars, omVars, today, clientVars, placed, day_sum, last_market_id,
                   state_market, market, resolution, idx, pending_positions,
                   ledger, trip_carried>>

\* Lines 170-179 and 272-274: the head of a tick.  Tripped: flag the
\* dashboard state, break, and run the finally block (cancel_all_orders).
CheckBreaker ==
    /\ pc = "tick"
    /\ IF circuit_breaker_tripped
       THEN /\ state_circuit_breaker' = TRUE
            /\ Finally
            /\ pc' = "halted"
       ELSE /\ pc' = "poll"
            /\ UNCHANGED <<feedVars, callVars, omVars, day_sum,
                           state_circuit_breaker>>
    /\ UNCHANGED <<today, clientVars, placed, last_market_id, state_market,
                   market, resolution, idx, pending_positions, ledger,
                   trip_carried>>

\* Lines 192-197: poll the scanner; on a new venue id fetch the outgoing
\* venue's resolution if it has pending positions.
PollScanner ==
    /\ pc = "poll"
    /\ \E m \in ScannerResults :
          /\ market' = m
          /\ IF m # None /\ m # last_market_id
             THEN IF last_market_id # None /\ HasKey(last_market_id[1])
                  THEN /\ \E res \in Resolutions : resolution' = res
                       /\ idx' = 1
                       /\ pc' = "resolve"
                  ELSE /\ pc' = "switch"
                       /\ UNCHANGED <<resolution, idx>>
             ELSE /\ pc' = "strategy"
                  /\ UNCHANGED <<resolution, idx>>
    /\ UNCHANGED <<feedVars, callVars, omVars, today, clientVars, placed, day_sum, last_market_id,
                   state_market, pending_positions, state_circuit_breaker,
                   ledger, trip_carried>>

\* Lines 199-208: one iteration of the loop over the outgoing venue's
\* positions: compute the P&L and feed it to record_pnl.
ResolvePosition ==
    /\ pc = "resolve"
    /\ idx <= Len(pending_positions[last_market_id[1]])
    /\ LET pos == pending_positions[last_market_id[1]][idx]
       IN /\ record_pnl(log_market_resolved(pos.price, pos.size, resolution))
          /\ ledger' = [ledger EXCEPT ![pos.n].count = @ + 1]
    /\ idx' = idx + 1
    /\ UNCHANGED <<feedVars, callVars, today, clientVars, placed, pc, last_market_id, state_market,
                   market, resolution, pending_positions,
                   state_circuit_breaker, trip_carried>>

\* Mutant: the outgoing venue's list is left in the map.
PopResolvedKeeps ==
    /\ pc = "resolve"
    /\ idx > Len(pending_positions[last_market_id[1]])
    /\ pc' = "switch"
    /\ resolution' = None
    /\ idx' = 0
    /\ UNCHANGED <<feedVars, callVars, omVars, today, clientVars, placed, day_sum, last_market_id,
                   state_market, market, pending_positions,
                   state_circuit_breaker, ledger, trip_carried>>

\* Line 209: pending_positions.pop(last_market_id) after the loop.  The
\* locals resolution and idx are dead from here and are cleared.
PopResolved ==
    /\ pc = "resolve"
    /\ idx > Len(pending_positions[last_market_id[1]])
    /\ pending_positions' =
           [pending_positions EXCEPT ![last_market_id[1]] = <<>>]
    /\ pc' = "switch"
    /\ resolution' = None
    /\ idx' = 0
    /\ UNCHANGED <<feedVars, callVars, omVars, today, clientVars, placed, day_sum, last_market_id,
                   state_market, market, state_circuit_breaker, ledger,
                   trip_carried>>

\* Lines 212-215: the incoming venue becomes current; resting orders are
\* cancelled.
SwitchMarket ==
    /\ pc = "switch"
    /\ last_market_id' = market
    /\ state_market' = market
    /\ \E r \in BOOLEAN : cancel_all_orders(r)
    /\ pc' = "strategy"
    /\ UNCHANGED <<feedVars, callVars, today, clientVars, placed, market, resolution, idx,
                   pending_positions, state_circuit_breaker, ledger,
                   trip_carried>>

\* Mutant: the position is recorded whatever the placement returned.
ShouldAppendAlways(ok) == TRUE

\* Line 251: `if placed:`.
ShouldAppend(ok) == ok

\* Mutant: state.market takes the scanner's result even when it is None.
MarketOrNone == market

\* Line 217: state.market = market or state.market.
MarketOrPrevious == IF market # None THEN market ELSE state_market

\* Lines 217-262, the rest of a tick.  No trade: the check is throttled, a
\* price is missing, state.circuit_breaker is set or check_signal returns
\* None.  Otherwise the signal is placed and, if placed, appended to the
\* pending positions under state.market.market_id.
StrategyCheck ==
    /\ pc = "strategy"
    /\ state_market' = MarketOrPrevious
    /\ \/ /\ UNCHANGED <<omVars, clientVars, placed, day_sum,
                         pending_positions, ledger>>
       \/ /\ ~ state_circuit_breaker
          /\ create_calls < MaxPositions \/ PlaceBlocked
          /\ \E sig \in Signals, r \in ClientReplies :
                /\ place_post_only_limit_order(sig.price, sig.size, "", r)
                /\ IF ShouldAppend(placed')
                   THEN /\ pending_positions' =
                              [pending_positions EXCEPT ![MarketOrPrevious[1]] =
                                  Append(@, [price |-> sig.price,
                                             size |-> sig.size,
                                             n |-> Len(ledger) + 1])]
                        /\ ledger' = Append(ledger,
                              [venue |-> MarketOrPrevious[1], count |-> 0])
                   ELSE UNCHANGED <<pending_positions, ledger>>
    /\ trip_carried' = circuit_breaker_tripped
    /\ market' = None
    /\ pc' = "tick"
    /\ UNCHANGED <<feedVars, callVars, today, last_market_id, resolution, idx,
                   state_circuit_breaker>>

\* Lines 270-274: KeyboardInterrupt anywhere in the loop, caught below it;
\* the finally block runs.
KeyboardInterrupt ==
    /\ pc \in {"tick", "poll", "resolve", "switch", "strategy"}
    /\ Finally
    /\ pc' = "exited"
    /\ UNCHANGED <<today, clientVars, placed, last_market_id, state_market,
                   market, resolution, idx, pending_positions,
                   state_circuit_breaker, ledger, trip_carried>>

\* A statement of the loop raises an exception no handler in the loop
\* catches (the dashboard, the scanner's parsing, the CSV log): the finally
\* block runs and the exception leaves run_bot.
TickRaises ==
    /\ pc \in {"tick", "poll", "resolve", "switch", "strategy"}
    /\ Finally
    /\ pc' = "crashed"
    /\ UNCHANGED <<today, clientVars, placed, last_market_id, state_market,
                   market, resolution, idx, pending_positions,
                   state_circuit_breaker, ledger, trip_carried>>

NextEngine ==
    \/ Startup
    \/ CheckBreaker
    \/ PollScanner
    \/ ResolvePosition
    \/ PopResolved
    \/ SwitchMarket
    \/ StrategyCheck
    \/ KeyboardInterrupt
    \/ TickRaises
    \/ DayRollover

SpecEngine == InitEngine /\ [][NextEngine]_vars

(* ------------------- feeds: incoming message handling ------------------ *)
(* A JSON value is a record [t, v]: t is its type as the handlers see it   *)
(* (a key that is absent, null, a number, a numeric string, a non-numeric  *)
(* string, an array, an object) and v its numeric value (0 when it has     *)
(* none).  Order-book prices are in cents and even, so the mid is exact.   *)

J(t, v) == [t |-> t, v |-> v]
JAbsent == J("absent", 0)

\* dict.get(key) is None: the key is absent or its value is null.
IsNone(x) == x.t \in {"absent", "null"}

\* float(x): the number, or the exception Python raises.
FloatError(x) ==
    IF x.t \in {"num", "numstr"} THEN "none"
    ELSE IF x.t = "badstr" THEN "ValueError"
    ELSE "TypeError"

\* ---- BinancePriceFeed._on_message ----
\* A ticker payload: [shape, c].  shape: text that is not JSON, a JSON
\* object, or JSON of another type (array, string, number, null).

\* data.get("c", 0)
TickerC(m) == IF m.c.t = "absent" THEN J("num", 0) ELSE m.c

\* How the call ends: "ok", "caught" (an exception of the except clause:
\* JSONDecodeError, ValueError, KeyError) or "raised" (any other exception
\* leaves the handler: AttributeError of <non-dict>.get, TypeError of
\* float(None) or float of a list/dict).
TickerOutcome(m) ==
    IF m.shape = "invalid" THEN "caught"
    ELSE IF m.shape # "object" THEN "raised"
    ELSE IF FloatError(TickerC(m)) = "none" THEN "ok"
    ELSE IF FloatError(TickerC(m)) = "ValueError" THEN "caught"
    ELSE "raised"

\* Line 44: the price is taken.
TickerAccepts(m) == TickerOutcome(m) = "ok" /\ TickerC(m).v > 0

ticker_on_message(m) ==
    /\ last_msg' = Some(m)
    /\ msg_outcome' = TickerOutcome(m)
    /\ due_delay' = IF TickerOutcome(m) = "ok" THEN BACKOFF_BASE_SEC
                    ELSE due_delay
    /\ IF TickerAccepts(m)
       THEN /\ prev_price' = feed_price
            /\ feed_price' = Some(TickerC(m).v)
            /\ backoff' = BACKOFF_BASE_SEC
            /\ cb_invoked' = TRUE
       ELSE /\ UNCHANGED <<feed_price, prev_price, backoff>>
            /\ cb_invoked' = FALSE
    /\ UNCHANGED <<best_bid, best_ask, mid_price>>

\* ---- OrderBookFeed._on_message / _process_message / _update_book ----
\* The feed's tokens, and one it is not subscribed to.
YesToken == "YES"
NoToken == "NO"
OtherToken == "OTHER"

\* A book level list as `bids[0]` sees it: [t, price] with t "empty" (the
\* key is absent, null or []), "dict" (first level is an object; price is
\* its "price") or "nondict" (first level is a string or a number).
Level(t, pr) == [t |-> t, price |-> pr]
NoLevel == Level("empty", JAbsent)

\* float(levels[0]["price"]) if levels else None: the exception, if any.
LevelError(l) ==
    IF l.t = "empty" THEN "none"
    ELSE IF l.t = "nondict" THEN "TypeError"
    ELSE IF l.price.t = "absent" THEN "KeyError"
    ELSE FloatError(l.price)

\* What a call decides: how it ends, and the (bid, ask) handed to
\* _update_book if any.
Res(o) == [outcome |-> o, update |-> FALSE, bid |-> 0, ask |-> 0]
Upd(b, a) == [outcome |-> "ok", update |-> TRUE, bid |-> b, ask |-> a]

\* _on_message catches JSONDecodeError and TypeError; anything else leaves it.
Thrown(e) == IF e = "TypeError" THEN Res("caught") ELSE Res("raised")

\* Lines 59-64.
BestBidAsk(m) ==
    IF IsNone(m.best_bid) \/ IsNone(m.best_ask) THEN Res("ok")
    ELSE IF FloatError(m.best_bid) # "none" THEN Thrown(FloatError(m.best_bid))
    ELSE IF FloatError(m.best_ask) # "none" THEN Thrown(FloatError(m.best_ask))
    ELSE Upd(m.best_bid.v, m.best_ask.v)

\* Lines 66-76.
Book(m) ==
    IF m.asset_id # YesToken THEN Res("ok")
    ELSE IF LevelError(m.bids) # "none" THEN Thrown(LevelError(m.bids))
    ELSE IF LevelError(m.asks) # "none" THEN Thrown(LevelError(m.asks))
    ELSE IF m.bids.t = "empty" \/ m.asks.t = "empty" THEN Res("ok")
    ELSE Upd(m.bids.price.v, m.asks.price.v)

\* Mutant: the ask ceiling is not tested.
PlausibleNoCeiling(b, a) == b > 0 /\ a > 0

\* Line 87: b > 0 and a > 0 and a < 2.
Plausible(b, a) == b > 0 /\ a > 0 /\ a < 200

\* Lines 82-90, for the entry of the Yes token.
PriceChangeEntry(e) ==
    IF IsNone(e.best_bid) \/ IsNone(e.best_ask) THEN Res("ok")
    ELSE IF FloatError(e.best_bid) # "none" \/ FloatError(e.best_ask) # "none"
         THEN Res("ok")
    ELSE IF Plausible(e.best_bid.v, e.best_ask.v)
         THEN Upd(e.best_bid.v, e.best_ask.v)
    ELSE Res("ok")

\* Lines 79-91: the loop over price_changes, from entry i on.  An entry that
\* is not an object raises AttributeError at pc.get.
RECURSIVE PriceChange(_, _)
PriceChange(changes, i) ==
    IF i > Len(changes) THEN Res("ok")
    ELSE IF changes[i].t # "dict" THEN Res("raised")
    ELSE IF changes[i].asset_id = YesToken THEN PriceChangeEntry(changes[i])
    ELSE PriceChange(changes, i + 1)

\* _on_message with _process_message.
BookResult(m) ==
    IF m.shape = "invalid" THEN Res("caught")
    ELSE IF m.shape # "object" THEN Res("ok")
    ELSE IF m.event_type = "best_bid_ask" THEN BestBidAsk(m)
    ELSE IF m.event_type = "book" THEN Book(m)
    ELSE IF m.event_type = "price_change" THEN PriceChange(m.changes, 1)
    ELSE Res("ok")

\* Line 97: the mid, or None when a side is 0.
MidOf(b, a) == IF b # 0 /\ a # 0 THEN Some((b + a) \div 2) ELSE None

book_on_message(m) ==
    LET r == BookResult(m)
    IN /\ last_msg' = Some(m)
       /\ msg_outcome' = r.outcome
       /\ due_delay' = IF r.outcome = "ok" THEN BACKOFF_BASE ELSE due_delay
       /\ IF r.update
          THEN /\ best_bid' = Some(r.bid)
               /\ best_ask' = Some(r.ask)
               /\ mid_price' = MidOf(r.bid, r.ask)
               /\ backoff' = BACKOFF_BASE
               /\ cb_invoked' = (MidOf(r.bid, r.ask) # None)
          ELSE /\ UNCHANGED <<best_bid, best_ask, mid_price, backoff>>
               /\ cb_invoked' = FALSE
       /\ UNCHANGED <<feed_price, prev_price>>

\* ---- the payloads ----
\* Order-book prices as the payload carries them: missing, null, not a
\* number, not a string, negative, zero, plausible, the ceiling 2.00, above.
BidFields ==
    {JAbsent, J("null", 0), J("badstr", 0), J("numstr", 0), J("numstr", 40),
     J("numstr", 300)}
AskFields ==
    {JAbsent, J("badstr", 0), J("array", 0), J("numstr", 0 - 10),
     J("numstr", 60), J("numstr", 200)}

BookMsg(shape, ev, asset, bid, ask, bids, asks, changes) ==
    [shape |-> shape, event_type |-> ev, asset_id |-> asset, best_bid |-> bid,
     best_ask |-> ask, bids |-> bids, asks |-> asks, changes |-> changes]

NonEventMsgs ==
    {BookMsg(sh, "", YesToken, JAbsent, JAbsent, NoLevel, NoLevel, <<>>) :
        sh \in {"invalid", "array", "scalar"}}
        \cup {BookMsg("object", "last_trade_price", YesToken, JAbsent, JAbsent,
                      NoLevel, NoLevel, <<>>)}

BestBidAskMsgs ==
    {BookMsg("object", "best_bid_ask", a, b, k, NoLevel, NoLevel, <<>>) :
        a \in {YesToken, OtherToken}, b \in BidFields, k \in AskFields}

BidLevels ==
    {NoLevel, Level("nondict", JAbsent)}
        \cup {Level("dict", pr) : pr \in {JAbsent, J("badstr", 0),
                                          J("numstr", 0), J("numstr", 40)}}
AskLevels ==
    {NoLevel} \cup {Level("dict", pr) : pr \in {JAbsent, J("numstr", 60),
                                                J("numstr", 300)}}

BookEventMsgs ==
    {BookMsg("object", "book", YesToken, JAbsent, JAbsent, b, k, <<>>) :
        b \in BidLevels, k \in AskLevels}
        \cup {BookMsg("object", "book", a, JAbsent, JAbsent,
                      Level("dict", J("numstr", 40)),
                      Level("dict", J("numstr", 60)), <<>>) :
                  a \in {NoToken, OtherToken}}

Entry(t, asset, bid, ask) ==
    [t |-> t, asset_id |-> asset, best_bid |-> bid, best_ask |-> ask]
OtherEntry == Entry("dict", OtherToken, J("numstr", 40), J("numstr", 60))
NonDictEntry == Entry("nondict", OtherToken, JAbsent, JAbsent)
YesEntries ==
    {Entry("dict", YesToken, b, k) :
        b \in {J("null", 0), J("badstr", 0), J("numstr", 0), J("numstr", 40),
               J("numstr", 300)},
        k \in {J("numstr", 0 - 10), J("numstr", 60), J("numstr", 200)}}

PriceChangeMsgs ==
    {BookMsg("object", "price_change", YesToken, JAbsent, JAbsent, NoLevel,
             NoLevel, c) :
        c \in {<<>>, <<OtherEntry>>, <<NonDictEntry>>,
               <<OtherEntry, NonDictEntry>>}
                \cup {<<e>> : e \in YesEntries}
                \cup {<<OtherEntry, e>> : e \in YesEntries}}

TickerMsg(shape, c) == [shape |-> shape, c |-> c]
TickerMsgs ==
    {TickerMsg(sh, JAbsent) : sh \in {"invalid", "array", "scalar"}}
        \cup {TickerMsg("object", c) :
                 c \in {JAbsent, J("null", 0), J("badstr", 0), J("array", 0),
                        J("num", 0), J("numstr", 0 - 5), J("numstr", 100),
                        J("num", 102)}}

(* ------------------------- feeds: life cycle --------------------------- *)
(* A receive loop (_run_ws) is a thread i at one of: "unborn" (not yet     *)
(* spawned), "check" (at `while self._running`), "create" (in the body,    *)
(* about to build the WebSocketApp), "run" (self._ws assigned, about to    *)
(* enter run_forever), "connected" (inside run_forever), "after"           *)
(* (run_forever returned or raised), "sleep" (in time.sleep(delay)),       *)
(* "dead" (the function returned).                                         *)

LoopIds == 1..MaxLoops
\* The thread self._thread refers to (thread 1 before any start()).
CurLoop == IF thread_ref = 0 THEN 1 ELSE thread_ref

\* The value start() polls for.
ValueKnown == IF kind = "ticker" THEN feed_price # None ELSE mid_price # None

Min(a, b) == IF a <= b THEN a ELSE b

loopFrame == <<kind, caller, polls, thread_ref, stop_repeat>>
msgFrame == <<feedState, last_msg, msg_outcome, cb_invoked>>

\* `while self._running`
LoopCheck(i) ==
    /\ loops[i] = "check"
    /\ loops' = [loops EXCEPT ![i] = IF running THEN "create" ELSE "dead"]
    /\ UNCHANGED <<loopFrame, msgFrame, running, backoff, ws_owner, due_delay,
                   engineSide>>

\* self._ws = websocket.WebSocketApp(...)
LoopCreate(i) ==
    /\ loops[i] = "create"
    /\ ws_owner' = i
    /\ loops' = [loops EXCEPT ![i] = "run"]
    /\ UNCHANGED <<loopFrame, msgFrame, running, backoff, due_delay, engineSide>>

\* self._ws.run_forever(...) is entered.
LoopRunForever(i) ==
    /\ loops[i] = "run"
    /\ loops' = [loops EXCEPT ![i] = "connected"]
    /\ UNCHANGED <<loopFrame, msgFrame, running, backoff, ws_owner, due_delay,
                   engineSide>>

\* run_forever returns or raises: the connection failed, errored or was
\* closed by the peer.
LoopDisconnect(i) ==
    /\ loops[i] = "connected"
    /\ loops' = [loops EXCEPT ![i] = "after"]
    /\ UNCHANGED <<loopFrame, msgFrame, running, backoff, ws_owner, due_delay,
                   engineSide>>

\* Mutant: the loop gives up once the delay has reached the ceiling.
ExitConditionMaxRetries == ~running \/ backoff >= Ceiling

\* `if not self._running: break`
ExitCondition == ~running

\* After run_forever: leave, or compute the delay and go to sleep.
LoopAfter(i) ==
    /\ loops[i] = "after"
    /\ IF ExitCondition
       THEN /\ loops' = [loops EXCEPT ![i] = "dead"]
            /\ UNCHANGED due_delay
       ELSE /\ loops' = [loops EXCEPT ![i] = "sleep"]
            /\ due_delay' = Min(due_delay * 2, Ceiling)
    /\ UNCHANGED <<loopFrame, msgFrame, running, backoff, ws_owner,
                   engineSide>>

\* time.sleep(delay) returns; the delay is multiplied and clamped.
LoopWake(i) ==
    /\ loops[i] = "sleep"
    /\ backoff' = Min(backoff * Multiplier, Ceiling)
    /\ loops' = [loops EXCEPT ![i] = "check"]
    /\ UNCHANGED <<loopFrame, msgFrame, running, ws_owner, due_delay, engineSide>>

\* The payloads the life-cycle specification delivers: one the handler
\* takes, one it parses and ignores, one that is not JSON.
TickerLifeMsgs ==
    {TickerMsg("object", J("numstr", 100)), TickerMsg("object", J("numstr", 0)),
     TickerMsg("invalid", JAbsent)}
BookLifeMsgs ==
    {BookMsg("object", "best_bid_ask", YesToken, J("numstr", 40),
             J("numstr", 60), NoLevel, NoLevel, <<>>),
     BookMsg("object", "book", NoToken, JAbsent, JAbsent,
             Level("dict", J("numstr", 40)), Level("dict", J("numstr", 60)),
             <<>>),
     BookMsg("invalid", "", YesToken, JAbsent, JAbsent, NoLevel, NoLevel, <<>>)}

on_message(m) == IF kind = "ticker" THEN ticker_on_message(m)
                 ELSE book_on_message(m)

\* A message arrives on loop i's connection.
LoopMessage(i) ==
    /\ loops[i] = "connected"
    /\ \E m \in IF kind = "ticker" THEN TickerLifeMsgs ELSE BookLifeMsgs :
          on_message(m)
    /\ UNCHANGED <<loopFrame, running, ws_owner, loops, engineSide>>

\* start(), lines up to the thread's start: nothing if already running.
StartBegin ==
    /\ caller = "idle"
    /\ IF running
       THEN UNCHANGED <<running, backoff, thread_ref, loops, caller, polls,
                        due_delay>>
       ELSE /\ thread_ref < MaxLoops
            /\ running' = TRUE
            /\ backoff' = IF kind = "ticker" THEN BACKOFF_BASE_SEC ELSE backoff
            /\ thread_ref' = thread_ref + 1
            /\ loops' = [loops EXCEPT ![thread_ref + 1] = "check"]
            /\ caller' = "start_poll"
            /\ polls' = 0
            /\ due_delay' = Base
    /\ UNCHANGED <<kind, msgFrame, ws_owner, stop_repeat,
                   engineSide>>

\* Mutant: the wait for a first value has no bound.
PollsExhaustedNever == FALSE

\* `for _ in range(N)` has run N times.
PollsExhausted == polls >= PollLimit

\* One turn of start()'s wait: return when the value is there or the polls
\* are used up, else sleep once more.
StartPoll ==
    /\ caller = "start_poll"
    /\ IF ValueKnown \/ PollsExhausted
       THEN caller' = "idle" /\ polls' = 0
       ELSE caller' = caller /\ polls' = polls + 1
    /\ UNCHANGED <<kind, msgFrame, running, backoff, ws_owner, thread_ref,
                   loops, due_delay, stop_repeat, engineSide>>

\* start()'s wait with the count left out: it ends when the value is there
\* or at some moment of the caller's choosing.  The loop may stand still
\* while start() polls, so a return after fewer polls reaches no state that
\* the full count does not reach.
StartWait ==
    /\ caller = "start_poll"
    /\ caller' = "idle"
    /\ UNCHANGED <<kind, msgFrame, running, backoff, ws_owner, thread_ref,
                   loops, polls, due_delay, stop_repeat, engineSide>>

\* stop(): self._running = False
StopBegin ==
    /\ caller = "idle"
    /\ stop_repeat' = ~running
    /\ running' = FALSE
    /\ caller' = "stop_close"
    /\ UNCHANGED <<kind, msgFrame, backoff, ws_owner, thread_ref, loops,
                   polls, due_delay, engineSide>>

\* stop(): `if self._ws: self._ws.close()`.  close() ends the run_forever
\* of the loop that owns the socket; on a WebSocketApp whose run_forever
\* has not begun, or has returned, it does nothing.
StopClose ==
    /\ caller = "stop_close"
    /\ loops' = IF ws_owner # 0 /\ loops[ws_owner] = "connected"
                THEN [loops EXCEPT ![ws_owner] = "after"]
                ELSE loops
    /\ caller' = "stop_join"
    /\ UNCHANGED <<kind, msgFrame, running, backoff, ws_owner, thread_ref,
                   polls, due_delay, stop_repeat, engineSide>>

\* stop(): `if self._thread: self._thread.join(timeout=3)` returns when the
\* thread has ended or the timeout has passed.
JoinReturns == TRUE

StopJoin ==
    /\ caller = "stop_join"
    /\ JoinReturns
    /\ caller' = "idle"
    /\ stop_repeat' = FALSE
    /\ UNCHANGED <<kind, msgFrame, running, backoff, ws_owner, thread_ref,
                   loops, polls, due_delay, engineSide>>

LoopStep(i) ==
    \/ LoopCheck(i)
    \/ LoopCreate(i)
    \/ LoopRunForever(i)
    \/ LoopAfter(i)
    \/ LoopWake(i)

InitFeed == kind \in {"ticker", "book"} /\ NewFeed
                /\ InitOrderManager /\ InitEnv /\ InitCallsIdle /\ InitBotIdle

\* One run of a feed: start() and the receive loop it spawns, with messages
\* arriving and connections failing.
NextStart ==
    \/ StartBegin
    \/ StartPoll
    \/ \E i \in LoopIds : LoopCheck(i)
    \/ \E i \in LoopIds : LoopCreate(i)
    \/ \E i \in LoopIds : LoopRunForever(i)
    \/ \E i \in LoopIds : LoopDisconnect(i)
    \/ \E i \in LoopIds : LoopAfter(i)
    \/ \E i \in LoopIds : LoopWake(i)
    \/ \E i \in LoopIds : LoopMessage(i)

SpecStart == InitFeed /\ [][NextStart]_vars

\* A feed started, stopped and started again, its connections failing (no
\* message arrives).
NextFeed ==
    \/ StartBegin
    \/ StartWait
    \/ StopBegin
    \/ StopClose
    \/ StopJoin
    \/ \E i \in LoopIds : LoopCheck(i)
    \/ \E i \in LoopIds : LoopCreate(i)
    \/ \E i \in LoopIds : LoopRunForever(i)
    \/ \E i \in LoopIds : LoopDisconnect(i)
    \/ \E i \in LoopIds : LoopAfter(i)
    \/ \E i \in LoopIds : LoopWake(i)

SpecFeed == InitFeed /\ [][NextFeed]_vars

\* The threads are scheduled: the feed's current loop, when it can take a
\* step of its own, eventually takes one (nothing is assumed of the loops
\* of earlier starts).  Disconnections are the network's.
SpecFeedFair == SpecFeed /\ WF_vars(LoopStep(CurLoop))

(* ------------------- feeds: every payload, one connection -------------- *)
\* A running feed whose loop is connected, before any message: right after
\* start(), or after one failed connection and a reconnect.
InitMsg ==
    /\ kind \in {"ticker", "book"}
    /\ running = TRUE
    /\ \E b \in {Base, Min(Base * Multiplier, Ceiling)} :
          backoff = b /\ due_delay = b
    /\ ws_owner = 1
    /\ thread_ref = 1
    /\ loops = [i \in LoopIds |-> IF i = 1 THEN "connected" ELSE "unborn"]
    /\ caller = "idle"
    /\ polls = 0
    /\ feed_price = None
    /\ prev_price = None
    /\ best_bid = None
    /\ best_ask = None
    /\ mid_price = None
    /\ last_msg = None
    /\ msg_outcome = "none"
    /\ cb_invoked = FALSE
    /\ stop_repeat = FALSE
    /\ InitOrderManager /\ InitEnv /\ InitCallsIdle /\ InitBotIdle

msgRest == <<loopFrame, running, ws_owner, loops, engineSide>>

TickerMessage ==
    /\ kind = "ticker"
    /\ \E m \in TickerMsgs : ticker_on_message(m)
    /\ UNCHANGED msgRest

NonEventMessage ==
    /\ kind = "book"
    /\ \E m \in NonEventMsgs : book_on_message(m)
    /\ UNCHANGED msgRest

BestBidAskMessage ==
    /\ kind = "book"
    /\ \E m \in BestBidAskMsgs : book_on_message(m)
    /\ UNCHANGED msgRest

BookEventMessage ==
    /\ kind = "book"
    /\ \E m \in BookEventMsgs : book_on_message(m)
    /\ UNCHANGED msgRest

PriceChangeMessage ==
    /\ kind = "book"
    /\ \E m \in PriceChangeMsgs : book_on_message(m)
    /\ UNCHANGED msgRest

NextMsg ==
    \/ TickerMessage
    \/ NonEventMessage
    \/ BestBidAskMessage
    \/ BookEventMessage
    \/ PriceChangeMessage

SpecMsg == InitMsg /\ [][NextMsg]_vars

(* ------------- ticker feed read while a message is handled ------------ *)
(* _on_message runs on the receive thread and price_change_pct on the      *)
(* engine loop's thread; neither takes a lock, so the reads of             *)
(* price_change_pct interleave with the two assignments of _on_message     *)
(* attribute access by attribute access.  threads holds the two frames:    *)
(* recv (the step of _on_message and the price it parsed) and reader (the  *)
(* step of price_change_pct, the values it has loaded and the value the    *)
(* last call returned: "unset" before any call, None, or the quotient's    *)
(* numerator and denominator).                                             *)

\* The positive prices the stream delivers, in this order; payloads that
\* are not accepted arrive between them at any time.
TickerStream == <<100, 110, 132>>

\* How many prices of the stream p is from its start (0 for None).
Rank(p) == IF p = None THEN 0
           ELSE CHOOSE k \in 1..Len(TickerStream) : TickerStream[k] = p[1]

\* The payloads that can arrive next.
NextPayloads ==
    {m \in TickerMsgs : ~ TickerAccepts(m)}
        \cup {TickerMsg("object", J("num", TickerStream[k])) :
                 k \in {Rank(feed_price) + 1} \cap DOMAIN TickerStream}

InitTicker ==
    /\ InitOrderManager /\ InitEnv /\ InitBotIdle
    /\ kind = "ticker"
    /\ running = TRUE
    /\ backoff = Base
    /\ due_delay = Base
    /\ ws_owner = 1
    /\ thread_ref = 1
    /\ loops = [i \in LoopIds |-> IF i = 1 THEN "connected" ELSE "unborn"]
    /\ caller = "idle"
    /\ polls = 0
    /\ feed_price = None
    /\ prev_price = None
    /\ best_bid = None
    /\ best_ask = None
    /\ mid_price = None
    /\ last_msg = None
    /\ msg_outcome = "none"
    /\ cb_invoked = FALSE
    /\ stop_repeat = FALSE
    /\ cancel_raised = None /\ current_mid = None /\ requote = None
    /\ check_args = None /\ signal = None /\ event = None
    /\ active_market = None /\ answer = None /\ verdict = None
    /\ quote_args = None /\ quotes = <<>>
    /\ final_cancel = None
    /\ threads = [recv |-> [at |-> "idle", p |-> 0],
                  reader |-> [at |-> "idle", a |-> 0, b |-> 0,
                              ret |-> "unset"]]

tickerFrame == <<omVars, today, clientVars, placed, day_sum, botVars,
                 observed, final_cancel, kind, running, ws_owner, thread_ref,
                 loops, caller, polls, best_bid, best_ask, mid_price,
                 stop_repeat>>

\* binance_feed.py:40-44: a payload arrives; it is parsed and its price
\* tested.  An accepted price is held in the local p.
ReceiveMessage ==
    /\ threads.recv.at = "idle"
    /\ \E m \in NextPayloads :
          /\ last_msg' = Some(m)
          /\ msg_outcome' = TickerOutcome(m)
          /\ due_delay' = IF TickerOutcome(m) = "ok" THEN BACKOFF_BASE_SEC
                          ELSE due_delay
          /\ IF TickerAccepts(m)
             THEN /\ threads' = [threads EXCEPT
                                    !.recv = [at |-> "store_prev",
                                              p |-> TickerC(m).v]]
                  /\ UNCHANGED cb_invoked
             ELSE /\ cb_invoked' = FALSE
                  /\ UNCHANGED threads
    /\ UNCHANGED <<feed_price, prev_price, backoff, tickerFrame>>

\* binance_feed.py:45-50: self._prev_price = self._price, then
\* self._price = p with the callback and the backoff reset.
StorePrices ==
    /\ threads.recv.at \in {"store_prev", "store_price"}
    /\ IF threads.recv.at = "store_prev"
       THEN /\ prev_price' = feed_price
            /\ threads' = [threads EXCEPT !.recv.at = "store_price"]
            /\ UNCHANGED <<feed_price, backoff, cb_invoked>>
       ELSE /\ feed_price' = Some(threads.recv.p)
            /\ backoff' = BACKOFF_BASE_SEC
            /\ cb_invoked' = TRUE
            /\ threads' = [threads EXCEPT !.recv = [at |-> "idle", p |-> 0]]
            /\ UNCHANGED prev_price
    /\ UNCHANGED <<last_msg, msg_outcome, due_delay, tickerFrame>>

\* bot.py:241: the engine loop calls feed.price_change_pct().
CallPriceChangePct ==
    /\ threads.reader.at = "idle"
    /\ threads' = [threads EXCEPT !.reader.at = "test_price"]
    /\ UNCHANGED <<feed_price, prev_price, backoff, cb_invoked, last_msg,
                   msg_outcome, due_delay, tickerFrame>>

\* binance_feed.py:134-136, one attribute read at a time: the three tests
\* of line 134, then the three operands of line 136.
PriceChangePctStep ==
    LET f == threads.reader
        goto(at) == threads' = [threads EXCEPT !.reader.at = at]
        return(v) == threads' = [threads EXCEPT
                                    !.reader = [at |-> "idle", a |-> 0,
                                                b |-> 0, ret |-> v]]
    IN
    /\ f.at # "idle"
    /\ CASE f.at = "test_price" ->
              IF feed_price = None THEN return(None) ELSE goto("test_prev")
         [] f.at = "test_prev" ->
              IF prev_price = None THEN return(None) ELSE goto("test_sign")
         [] f.at = "test_sign" ->
              IF prev_price = None \/ prev_price[1] <= 0
              THEN return(None) ELSE goto("load_price")
         [] f.at = "load_price" ->
              threads' = [threads EXCEPT !.reader.at = "load_prev",
                                         !.reader.a = feed_price[1]]
         [] f.at = "load_prev" ->
              threads' = [threads EXCEPT !.reader.at = "load_divisor",
                                         !.reader.b = prev_price[1]]
         [] f.at = "load_divisor" ->
              return(Some(<<(f.a - f.b) * 100, prev_price[1]>>))
    /\ UNCHANGED <<feed_price, prev_price, backoff, cb_invoked, last_msg,
                   msg_outcome, due_delay, tickerFrame>>

NextTicker ==
    \/ ReceiveMessage
    \/ StorePrices
    \/ CallPriceChangePct
    \/ PriceChangePctStep

SpecTicker == InitTicker /\ [][NextTicker]_vars

(* ------------------- LatencyArbitrageStrategy -------------------------- *)
\* Units: prices and probabilities in 1/10000, percentages in hundredths of
\* a percent, the notional in cents, sizes in hundredths of a share and
\* TradeSignal.price in thousandths.  TradeSignal.ev, a quotient, is kept as
\* the pair of its numerator and denominator.  Arithmetic is exact: the
\* inputs below avoid decimal ties, where binary rounding would decide.

\* Mutant: round() truncates.
RoundDown(a, b) == a \div b

\* round(a / b) to the nearest integer, ties to even (Python's round).
Round(a, b) ==
    LET q == a \div b
        r == a % b
    IN  IF 2 * r < b THEN q
        ELSE IF 2 * r > b THEN q + 1
        ELSE IF q % 2 = 0 THEN q ELSE q + 1

\* bump = min(0.08, (binance_change_pct / 100) * 2)
Bump(pct) == Min(800, 2 * pct)
\* implied_prob = min(0.99, poly_yes_price + bump)
ImpliedProb(p, pct) == Min(9900, p + Bump(pct))

\* Mutant: the EV gate is missing.
EvBelowNever(p, pct) == FALSE

\* ev < self.ev_threshold, with ev = implied_prob / poly_yes_price
EvBelow(p, pct) == ImpliedProb(p, pct) * 100 < EV_THRESHOLD * p

\* check_signal(yes_token_id, _, _, binance_change_pct, poly_yes_price,
\* position_size_usd): the TradeSignal returned, or None.
check_signal(token, pct, p, usd) ==
    IF p <= 0 \/ p >= 10000 THEN None
    ELSE IF pct = None \/ pct[1] < BINANCE_JUMP_THRESHOLD_PCT THEN None
    ELSE IF EvBelow(p, pct[1]) THEN None
    ELSE LET size == Round(usd * 10000, p)
         IN  IF size < 100 THEN None
             ELSE Some([token_id |-> token, side |-> "BUY",
                        price |-> Round(p, 10), size |-> size,
                        ev |-> <<ImpliedProb(p, pct[1]), p>>])

\* Lag prices: outside (0,1) at both ends, a price below half a thousandth,
\* 0.40, two prices with a fourth decimal, and prices near 1 where the 0.99
\* cap on the implied probability binds.
LagPrices == {0, 4, 4000, 4004, 4006, 9200, 9800, 10000}
\* Lead changes: unknown, negative, below the jump threshold, equal to it,
\* 0.2 %, 2 % and 5 % (where the 0.08 cap on the bump binds).
ChangePcts == {None, Some(0 - 200), Some(5), Some(BINANCE_JUMP_THRESHOLD_PCT),
               Some(20), Some(200), Some(500)}
\* Notionals in cents: the configured one, and two that buy less than one
\* share at some of the prices.
Notionals == {30, 90, POSITION_SIZE_USD * 100}

CheckSignal ==
    \E p \in LagPrices, c \in ChangePcts, n \in Notionals :
        /\ check_args' = Some([poly_yes_price |-> p, binance_change_pct |-> c,
                               position_size_usd |-> n,
                               yes_token_id |-> YesToken])
        /\ signal' = check_signal(YesToken, c, p, n)
        /\ UNCHANGED <<feedVars, threads, final_cancel, quote_args, quotes,
                       cancel_raised, current_mid, requote, event,
                       active_market, answer, verdict, omVars, today,
                       clientVars, placed, day_sum, botVars>>

SpecSignal == Init /\ [][CheckSignal]_vars

(* ------------------------------ Scanner -------------------------------- *)
\* A market object of an event: its closed flag, its acceptingOrders flag
\* (or "absent"), its endDate (a time, or None when the field is missing or
\* empty) and its clobTokenIds string: a JSON list of two ids, a JSON list
\* of one, or text that is not JSON.  Timestamps of one format compare as
\* strings the way their times compare, so times are numbers.
Market(c, a, e, t) == [closed |-> c, acceptingOrders |-> a, endDate |-> e,
                       clobTokenIds |-> t]
MarketKinds ==
    { Market(FALSE, "true", Some(2), "two"),
      Market(FALSE, "absent", Some(3), "two"),
      Market(FALSE, "true", None, "two"),
      Market(TRUE, "true", Some(3), "two"),
      Market(FALSE, "false", Some(3), "two"),
      Market(FALSE, "true", Some(1), "two"),
      Market(FALSE, "true", Some(3), "one"),
      Market(FALSE, "true", Some(2), "malformed") }
\* event["markets"]: up to MaxMarkets markets; a market's id is its place.
MarketLists == UNION {[1..n -> MarketKinds] : n \in 0..MaxMarkets}
\* time.gmtime() at the call
Nows == {2, 3}

\* _parse_clob_token_ids(raw): both ids, or ("", "") as <<>>.
parse_clob_token_ids(raw) ==
    IF raw = "two" THEN <<YesToken, NoToken>> ELSE <<>>

\* Mutant: markets whose endDate has passed are kept.
EndPassedNever(m, now) == FALSE

\* `end and end < now_iso`
EndPassed(m, now) == m.endDate # None /\ m.endDate[1] < now

\* The loop's filter (lines 113-122): the market is appended to
\* active_markets.
Kept(m, now) ==
    /\ ~m.closed
    /\ m.acceptingOrders # "false"
    /\ ~EndPassed(m, now)
    /\ parse_clob_token_ids(m.clobTokenIds) # <<>>

\* The sort key `x[1] or "9999"`.
SortKey(m) == IF m.endDate = None THEN 9999 ELSE m.endDate[1]

RECURSIVE FirstOfSortedLast(_, _, _, _)
\* Mutant: among equal keys the last market wins.
FirstOfSortedLast(markets, now, i, best) ==
    IF i > Len(markets) THEN best
    ELSE IF Kept(markets[i], now)
            /\ (best = 0 \/ SortKey(markets[i]) <= SortKey(markets[best]))
         THEN FirstOfSortedLast(markets, now, i + 1, i)
         ELSE FirstOfSortedLast(markets, now, i + 1, best)

RECURSIVE FirstOfSorted(_, _, _, _)
\* active_markets.sort(key=...)[0]: the stable sort puts first the earliest
\* kept market with the least key.  Scans from place i with the best place
\* so far (0: none).
FirstOfSorted(markets, now, i, best) ==
    IF i > Len(markets) THEN best
    ELSE IF Kept(markets[i], now)
            /\ (best = 0 \/ SortKey(markets[i]) < SortKey(markets[best]))
         THEN FirstOfSorted(markets, now, i + 1, i)
         ELSE FirstOfSorted(markets, now, i + 1, best)

\* _get_active_market_from_event(event) at time now.
get_active_market_from_event(markets, now) ==
    LET i == FirstOfSorted(markets, now, 1, 0)
    IN  IF i = 0 THEN None
        ELSE Some([market_id |-> i,
                   end_date_iso |-> markets[i].endDate,
                   yes_token_id |-> parse_clob_token_ids(markets[i].clobTokenIds)[1],
                   no_token_id |-> parse_clob_token_ids(markets[i].clobTokenIds)[2],
                   accepting_orders |-> (markets[i].acceptingOrders # "false")])

\* One call on a scanner that has made none.
Discover ==
    \E ms \in MarketLists, now \in Nows :
        /\ event = None
        /\ event' = Some([markets |-> ms, now |-> now])
        /\ active_market' = get_active_market_from_event(ms, now)
        /\ UNCHANGED <<feedVars, threads, final_cancel, quote_args, quotes,
                       cancel_raised, current_mid, requote,
                       check_args, signal, answer, verdict, omVars, today,
                       clientVars, placed, day_sum, botVars>>

SpecDiscover == Init /\ [][Discover]_vars

\* ---- Scanner.get_market_resolution ----
\* The answer to GET /markets/<id>: the request fails, the status is an
\* error, the body is not JSON, is JSON but no object, or is a market
\* object.  Of the object: closed (true, false or absent), outcomePrices and
\* outcomes.  Such a field is absent, a list, a string that is a JSON list,
\* a string opening with "[" that is not JSON, or another string; list
\* items are JSON values with prices in hundredths.
Field(k, items) == [kind |-> k, items |-> items]
PriceLists ==
    { <<J("numstr", 60), J("numstr", 40)>>,
      <<J("numstr", 30), J("numstr", 70)>>,
      <<J("numstr", 50), J("numstr", 50)>>,
      <<J("num", 60), J("num", 40)>>,
      <<J("badstr", 0), J("badstr", 0)>>,
      <<J("null", 0), J("numstr", 40)>>,
      <<J("numstr", 100)>>,
      <<>> }
PriceFields ==
    {Field("absent", <<>>), Field("badjson", <<>>), Field("plainstr", <<>>)}
        \cup {Field(k, l) : k \in {"list", "jsonstr"}, l \in PriceLists}
\* outcomes: absent, or the labels ["Up", "Down"].
OutcomeFields ==
    {Field("absent", <<>>),
     Field("jsonstr", <<J("badstr", 0), J("badstr", 0)>>)}
Replies ==
    {[shape |-> sh, closed |-> "absent", outcomePrices |-> Field("absent", <<>>),
      outcomes |-> Field("absent", <<>>)] :
        sh \in {"request_error", "http_error", "invalid", "array"}}
    \cup {[shape |-> "object", closed |-> c, outcomePrices |-> op,
           outcomes |-> oc] :
            c \in {"true", "false", "absent"}, op \in PriceFields,
            oc \in OutcomeFields}

\* `a or b` on two fields: a unless it is falsy (absent, or an empty list).
Raw(m) ==
    IF m.outcomePrices.kind = "absent"
       \/ (m.outcomePrices.kind = "list" /\ m.outcomePrices.items = <<>>)
    THEN m.outcomes ELSE m.outcomePrices

\* Lines 181-184: prices, or "error" when json.loads raises.
PricesOf(raw) ==
    IF raw.kind = "badjson" THEN "error"
    ELSE IF raw.kind = "plainstr" THEN <<J("badstr", 0)>>
    ELSE raw.items

\* float(x) for a number, float(str(x)) otherwise: str(None) is no number.
YesPriceError(x) == x.t \notin {"num", "numstr"}

\* Mutant: a first price of one half counts as a win.
YesWonAtHalf(x) == x.v >= 50

\* yes_price > 0.5
YesWon(x) == x.v > 50

\* get_market_resolution(market_id) against the answer m: every exception
\* raised inside the try block is an Exception and ends in `return None`.
get_market_resolution(m) ==
    IF m.shape # "object" THEN None
    ELSE IF m.closed # "true" THEN None
    ELSE IF PricesOf(Raw(m)) = "error" THEN None
    ELSE IF Len(PricesOf(Raw(m))) >= 2
         THEN IF YesPriceError(PricesOf(Raw(m))[1]) THEN None
              ELSE Some(YesWon(PricesOf(Raw(m))[1]))
         ELSE None

\* One call on a scanner that has made none.
GetResolution ==
    \E m \in Replies :
        /\ answer = None
        /\ answer' = Some(m)
        /\ verdict' = get_market_resolution(m)
        /\ UNCHANGED <<feedVars, threads, final_cancel, quote_args, quotes,
                       cancel_raised, current_mid, requote,
                       check_args, signal, event, active_market, omVars,
                       today, clientVars, placed, day_sum, botVars>>

SpecResolution == Init /\ [][GetResolution]_vars

(* ------------------- symmetrical market-making pair -------------------- *)
\* The quote-pair strategy, from its description: mid and spread in
\* 1/10000, prices in thousandths, the share size in hundredths.  The two
\* may-quote flags are the OrderManager's can_quote_yes and can_quote_no.

\* outcome-A bid = mid - spread, rounded to 3 decimals
YesBid(mid, spread) == Round(mid - spread, 10)
\* outcome-B bid = (1 - mid) - spread, rounded to 3 decimals
NoBid(mid, spread) == Round((10000 - mid) - spread, 10)

\* The intent for one side, or none: the side is permitted, its price lies
\* in [0.01, 0.99] and the size is at least one share.
QuoteFor(outcome, bid, size, may) ==
    IF may /\ bid >= 10 /\ bid <= 990 /\ size >= 100
    THEN <<[outcome |-> outcome, side |-> "BUY", price |-> bid,
            size |-> size]>>
    ELSE <<>>

\* The intents for a mid strictly between 0 and 1; none otherwise.
quote_pair(mid, spread, size, may_yes, may_no) ==
    IF mid <= 0 \/ mid >= 10000 THEN <<>>
    ELSE QuoteFor("Yes", YesBid(mid, spread), size, may_yes)
            \o QuoteFor("No", NoBid(mid, spread), size, may_no)

\* Mids at and inside both ends, near the ends where one bid leaves
\* [0.01, 0.99], and 0.52 with and without a fourth decimal.
PairMids == {0, 200, 400, 5200, 5204, 9900, 9950, 10000}
Spreads == {0, 300, 306}
PairSizes == {50, 100, 500}

\* The strategy is evaluated with the flags the OrderManager gives.
MakeQuotes ==
    \E m \in PairMids, sp \in Spreads, sz \in PairSizes :
        /\ quote_args' = Some([mid |-> m, spread |-> sp, size |-> sz,
                               may_yes |-> can_quote_yes,
                               may_no |-> can_quote_no])
        /\ quotes' = quote_pair(m, sp, sz, can_quote_yes, can_quote_no)
        /\ UNCHANGED <<feedVars, threads, final_cancel, cancel_raised,
                       current_mid, requote, check_args, signal, event,
                       active_market, answer, verdict, omVars, today,
                       clientVars, placed, day_sum, botVars>>

NextPair == RecordFill \/ MakeQuotes

SpecPair == Init /\ [][NextPair]_vars

(* --------------------------- claims on run_bot ------------------------- *)

\* C4: in the engine loop, once the breaker is tripped (also when rotation
\* bookkeeping trips it earlier in the same tick, before the strategy
\* check) the order-submission collaborator receives no further call.
C4_NoOrderAfterTrip ==
    [][circuit_breaker_tripped => UNCHANGED clientVars]_vars

\* C4 witness: every order the collaborator received was posted, yet the
\* last placement returned failure: the strategy check of the tick in which
\* rotation tripped the breaker tried to place an order and was refused.
C4_Witness ==
    /\ circuit_breaker_tripped
    /\ ~ state_circuit_breaker
    /\ pc = "tick"
    /\ posted >= 1
    /\ create_calls = posted
    /\ placed = FALSE

\* C5: a tick that begins with the breaker tripped leaves the loop in its
\* first step (any step at the head of the tick other than the clock passing
\* midnight), without polling the scanner, checking the strategy or reaching
\* the collaborator; so once a tick has ended with the breaker tripped the
\* loop is at the head of the next tick or has exited.
C5_HaltOnBreaker ==
    /\ [](trip_carried => pc \in {"tick", "halted", "exited", "crashed"})
    /\ [][(pc = "tick" /\ circuit_breaker_tripped /\ today' = today) =>
              /\ pc' \in {"halted", "exited", "crashed"}
              /\ UNCHANGED <<clientVars, market, pending_positions>>]_vars

\* C5 witness: the loop has halted on the breaker.
C5_Witness ==
    /\ pc = "halted"
    /\ trip_carried
    /\ state_circuit_breaker

\* Whether position n is in the pending map.
IsPending(n) ==
    \E v \in Venues :
        \E i \in 1..Len(pending_positions[v]) : pending_positions[v][i].n = n

C1_BreakerLatch ==
    [][circuit_breaker_tripped => circuit_breaker_tripped']_vars

\* C1 witness: the breaker is tripped while today's accumulator is back
\* above -limit.
C1_Witness ==
    /\ circuit_breaker_tripped
    /\ daily_reset_date = Some(today)
    /\ daily_pnl > 0 - circuit_breaker_loss

\* C2: after every record_pnl(delta) the breaker is tripped iff it was
\* tripped before or the day's accumulator after the add is <= -limit
\* (equality included); no step that is not a record_pnl sets it.
C2_TripOnCrossing ==
    [][ /\ \A d \in Deltas :
             record_pnl(d) =>
                 (circuit_breaker_tripped' <=>
                      (circuit_breaker_tripped
                          \/ daily_pnl' <= 0 - circuit_breaker_loss))
        /\ (~ \E d \in Deltas : record_pnl(d)) =>
               (circuit_breaker_tripped' => circuit_breaker_tripped) ]_vars

\* C2 witness: the breaker has tripped with the accumulator exactly at -limit.
C2_Witness ==
    /\ circuit_breaker_tripped
    /\ daily_reset_date = Some(today)
    /\ daily_pnl = 0 - circuit_breaker_loss
    /\ session_pnl = daily_pnl

\* C3: place_post_only_limit_order called while the breaker is tripped
\* returns failure, makes no create_order/post_order call and leaves every
\* risk field unchanged; stated as: a step from a tripped state that returns
\* success, reaches the collaborator or changes a risk field is not a step
\* of place_post_only_limit_order, whatever its arguments.
C3_PlaceWhileTrippedNoOp ==
    [][ (/\ circuit_breaker_tripped
         /\ ~ (placed' = FALSE /\ UNCHANGED clientVars /\ UNCHANGED riskFields))
        => \A p \in Prices, s \in Sizes, o \in Outcomes, r \in ClientReplies :
               ~ place_post_only_limit_order(p, s, o, r) ]_vars

\* C3 witness: every call the collaborator received was posted, yet the last
\* place call returned failure: that call was made while tripped.
C3_Witness ==
    /\ circuit_breaker_tripped
    /\ posted >= 1
    /\ create_calls = posted
    /\ placed = FALSE

\* C9: the value the daily_pnl property returns is the sum of the deltas
\* recorded during the current UTC day; the stored accumulator is not reset
\* by the date change itself, nor by an access on a day it was already
\* reset for.
C9_DailyReset ==
    /\ [](ResetDailyPnl = day_sum)
    /\ [][ /\ (today' # today) => (daily_pnl' = daily_pnl)
           /\ (daily_reset_date = Some(today) /\ today' = today) =>
                  (daily_pnl' - daily_pnl = day_sum' - day_sum) ]_vars

\* C9 witness: on the second day, after deltas on the first, the accumulator
\* has been reset and holds only the second day's non-zero sum.
C9_Witness ==
    /\ today = 2
    /\ daily_reset_date = Some(today)
    /\ daily_pnl # 0
    /\ session_pnl # daily_pnl

\* C10: both inventory counters are non-negative and do not exceed their
\* configured maxima.
C10_InventoryBounded ==
    /\ 0 <= inventory_yes /\ inventory_yes <= max_inventory_yes
    /\ 0 <= inventory_no /\ inventory_no <= max_inventory_no

(* --------------------------- claims on the feeds ----------------------- *)

\* C11: in both feeds the k-th consecutive connection failure since the
\* last message parsed without error (or since start()) sleeps
\* min(base * 2^(k-1), ceiling) before the reconnect: the delay the loop
\* computes is the one the rule prescribes at that point.
C11_DelayDoubles ==
    [][ \A i \in LoopIds :
            (loops[i] = "after" /\ loops'[i] = "sleep")
                => Min(backoff, Ceiling) = due_delay ]_vars

\* C12: whenever _on_message parses a message without error, the backoff
\* delay equals the base value immediately afterwards.
C12_ResetOnParse ==
    [][ ((\E i \in LoopIds : LoopMessage(i)) /\ msg_outcome' = "ok")
            => backoff' = Base ]_vars

\* Steps left from a loop's position to its next connection attempt.
StepsToAttempt(pos) ==
    CASE pos = "after" -> 4
      [] pos = "sleep" -> 3
      [] pos = "check" -> 2
      [] pos = "create" -> 1
      [] OTHER -> 0

\* C13: while the feed is running, the receive loop whose connection ended
\* goes on to a new connection attempt (or the feed is stopped meanwhile);
\* every loop thread between two connections can take its next step, and
\* each of its steps brings it one step nearer the attempt unless the feed
\* has been stopped; a loop ends only when _running is false, and only
\* stop() makes it false.
C13_ReconnectNeverWedges ==
    /\ (thread_ref # 0 /\ loops[CurLoop] = "after" /\ running)
          ~> (loops[CurLoop] = "run" \/ ~running)
    /\ [](\A i \in LoopIds :
            StepsToAttempt(loops[i]) > 0 => ENABLED LoopStep(i))
    /\ [][ \A i \in LoopIds :
              (StepsToAttempt(loops[i]) > 0 /\ loops'[i] # loops[i])
                 => \/ StepsToAttempt(loops'[i]) = StepsToAttempt(loops[i]) - 1
                    \/ loops'[i] = "dead" /\ ~running ]_vars
    /\ [][ \A i \in LoopIds :
              (loops[i] # "dead" /\ loops'[i] = "dead") => ~running ]_vars
    /\ [][ (running /\ ~running')
              => (caller = "idle" /\ caller' = "stop_close") ]_vars

\* C13 witness: a loop is connected again after two failed connections,
\* the feed still running.
C13_Witness ==
    /\ running
    /\ due_delay >= Base * 2 * 2
    /\ \E i \in LoopIds : loops[i] = "connected"

\* C14: a stop() called on a feed that is already stopped changes nothing:
\* no step of it changes _running or the state of a receive loop.
C14_SecondStopSameState ==
    [][ (caller' # caller /\ (stop_repeat \/ stop_repeat'))
            => (running' = running /\ loops' = loops) ]_vars

\* C15: start() polls at most 50 (ticker) or 100 (order book) times, can
\* always take its next step, and returns with the feed running, the value
\* known or the polls used up.
C15_StartReturns ==
    /\ [](caller = "start_poll"
            => (polls <= PollLimit /\ running /\ ENABLED StartPoll))
    /\ [][ (caller = "start_poll" /\ caller' = "idle")
              => (running' /\ (ValueKnown \/ polls = PollLimit)) ]_vars

\* C15 witness: start() has returned, the feed is running and its value is
\* still unknown.
C15_Witness ==
    /\ caller = "idle"
    /\ running
    /\ thread_ref = 1
    /\ ~ValueKnown

\* C16: no payload makes _on_message raise to its caller.
C16_HandlerNeverRaises == msg_outcome # "raised"

\* The event names only a token the feed is not subscribed to.
NamesForeignToken(m) ==
    /\ m.shape = "object"
    /\ \/ m.event_type \in {"best_bid_ask", "book"} /\ m.asset_id = OtherToken
       \/ /\ m.event_type = "price_change"
          /\ m.changes # <<>>
          /\ \A j \in 1..Len(m.changes) :
                m.changes[j].t = "dict" /\ m.changes[j].asset_id = OtherToken

\* C17: an order-book event that names a token other than the two
\* subscribed ones leaves best bid, best ask and mid unchanged.
C17_ForeignTokenIgnored ==
    [][ (kind = "book" /\ last_msg' # None /\ NamesForeignToken(last_msg'[1]))
            => UNCHANGED <<best_bid, best_ask, mid_price>> ]_vars

\* A stored price is plausible: above 0 and below the ceiling 2.00.
StoredPlausible(x) == x = None \/ (x[1] > 0 /\ x[1] < 200)

\* C18: the order-book feed never stores a best bid or best ask <= 0 or
\* >= 2, nor a mid computed from such a value.
C18_StoredPricesPlausible ==
    /\ StoredPlausible(best_bid)
    /\ StoredPlausible(best_ask)
    /\ mid_price # None => (StoredPlausible(best_bid) /\ StoredPlausible(best_ask))

\* The price_change entry the handler looks at (the first one, every entry
\* before it naming another token) carries numeric prices with ask >= 2,
\* bid <= 0 or ask <= 0.
ImplausiblePriceChange(m) ==
    /\ m.shape = "object"
    /\ m.event_type = "price_change"
    /\ \E j \in 1..Len(m.changes) :
          /\ \A h \in 1..(j - 1) :
                m.changes[h].t = "dict" /\ m.changes[h].asset_id # YesToken
          /\ m.changes[j].t = "dict"
          /\ m.changes[j].asset_id = YesToken
          /\ m.changes[j].best_bid.t = "numstr"
          /\ m.changes[j].best_ask.t = "numstr"
          /\ \/ m.changes[j].best_ask.v >= 200
             \/ m.changes[j].best_ask.v <= 0
             \/ m.changes[j].best_bid.v <= 0

\* C19: a price_change event whose ask is >= 2 or whose bid or ask is <= 0
\* leaves best bid, best ask and mid as they were and does not invoke the
\* on-update callback.
C19_ImplausiblePriceChangeIgnored ==
    [][ (kind = "book" /\ last_msg' # None
            /\ ImplausiblePriceChange(last_msg'[1]))
            => (UNCHANGED <<best_bid, best_ask, mid_price>>
                   /\ cb_invoked' = FALSE) ]_vars

\* C19 witness: such an event has been handled by a feed that holds a book.
C19_Witness ==
    /\ kind = "book"
    /\ last_msg # None
    /\ ImplausiblePriceChange(last_msg[1])
    /\ msg_outcome = "ok"
    /\ mid_price # None

\* C20: after a confirmed submission (post_order returned) the call has
\* returned success and a resting-order slot holds the (price, size) of
\* the order placed.
C20_ConfirmedIsRecorded ==
    [][ (posted' = posted + 1)
            => /\ placed'
               /\ \E sig \in Signals :
                     \/ active_yes_bid' = <<sig.price, sig.size>>
                     \/ active_no_bid' = <<sig.price, sig.size>> ]_vars

(* -------------------- claims on quoting operations --------------------- *)

\* C21: every call of cancel_all_orders, whether client.cancel_all()
\* answers or raises, returns with both locally tracked resting orders
\* cleared.
C21_CancelClearsBoth ==
    [][CancelQuotes => active_yes_bid' = None /\ active_no_bid' = None]_vars

\* C22: should_requote answers true while no mid is recorded; with a mid
\* recorded it answers false when the asked mid is within the threshold of
\* it (the threshold included) and true when it is further away; it records
\* nothing itself.
C22_RequoteOnDrift ==
    [][ShouldRequote =>
          /\ last_mid_price' = last_mid_price
          /\ last_mid_price = None => requote' = Some(TRUE)
          /\ last_mid_price # None =>
                LET m == current_mid'[1]
                    last == last_mid_price[1]
                IN  IF m - last > mid_drift_threshold
                       \/ last - m > mid_drift_threshold
                    THEN requote' = Some(TRUE)
                    ELSE requote' = Some(FALSE)]_vars

\* A call whose mid is exactly the threshold away from the recorded one
\* answered false.
C22_Witness ==
    /\ last_mid_price # None
    /\ current_mid # None
    /\ last_mid_price[1] - current_mid[1] = mid_drift_threshold
    /\ requote = Some(FALSE)

(* ------------------------ claims on the strategy ----------------------- *)

\* The arguments of the last check_signal call.
ArgPrice == check_args[1].poly_yes_price
ArgPct == check_args[1].binance_change_pct
ArgUsd == check_args[1].position_size_usd
\* The EV of the claim, min(0.99, p + min(0.08, pct/100*2)) / p, as a
\* fraction.
ClaimEvNum ==
    LET twice == 2 * ArgPct[1]
        b == IF twice > 800 THEN 800 ELSE twice
    IN  IF ArgPrice + b > 9900 THEN 9900 ELSE ArgPrice + b
\* n/d rounded to the nearest integer, for n/d not halfway between two.
Nearest(n, d) == CHOOSE k \in 0..(n \div d + 1) :
                     2 * (k * d - n) < d /\ 2 * (n - k * d) < d
\* The rejection gates, in the order the claim lists them.
GatePrice == ArgPrice <= 0 \/ ArgPrice >= 10000
GatePct == ArgPct = None \/ ArgPct[1] < BINANCE_JUMP_THRESHOLD_PCT
GateEv == ClaimEvNum * 100 < EV_THRESHOLD * ArgPrice
GateSize == Nearest(ArgUsd * 10000, ArgPrice) < 100
Rejected ==
    \/ GatePrice
    \/ ~GatePrice /\ GatePct
    \/ ~GatePrice /\ ~GatePct /\ GateEv
    \/ ~GatePrice /\ ~GatePct /\ ~GateEv /\ GateSize

\* C23: check_signal returns no signal when the lag price is not strictly
\* inside (0,1), or the lead's percentage change is unknown or below the jump
\* threshold, or the EV is below the EV threshold, or the rounded size is
\* below one share; a lag price of 0.40 with a 0.2 % change and a notional
\* of 10 gives none.
C23_GatesReject ==
    check_args # None =>
        /\ Rejected => signal = None
        /\ (ArgPrice = 4000 /\ ArgPct = Some(20) /\ ArgUsd = 1000)
               => signal = None

\* A call rejected by the EV gate alone: the claim's example.
C23_Witness ==
    /\ check_args # None
    /\ ArgPrice = 4000 /\ ArgPct = Some(20) /\ ArgUsd = 1000
    /\ ~GatePrice /\ ~GatePct /\ GateEv
    /\ signal = None

EvMarkets == event[1].markets
EvNow == event[1].now
\* The market at place i is eligible: not closed, accepting orders (a
\* missing flag counts as accepting), close time not passed (a missing close
\* time cannot have passed) and two parseable token ids.
Eligible(i) ==
    /\ EvMarkets[i].closed = FALSE
    /\ EvMarkets[i].acceptingOrders \in {"true", "absent"}
    /\ EvMarkets[i].endDate = None \/ EvMarkets[i].endDate[1] >= EvNow
    /\ EvMarkets[i].clobTokenIds = "two"
\* Market i closes before market j (a missing close time is later than any).
ClosesBefore(i, j) ==
    /\ EvMarkets[i].endDate # None
    /\ EvMarkets[j].endDate = None
          \/ EvMarkets[i].endDate[1] < EvMarkets[j].endDate[1]

\* C25: discovery returns none iff the event has no eligible market, and
\* otherwise the eligible market that no eligible market closes before and
\* that comes first in the input among those closing with it.
C25_EarliestEligible ==
    event # None =>
        /\ active_market = None
              <=> ~ \E i \in DOMAIN EvMarkets : Eligible(i)
        /\ active_market # None =>
              LET r == active_market[1].market_id
              IN  /\ r \in DOMAIN EvMarkets
                  /\ Eligible(r)
                  /\ active_market[1].end_date_iso = EvMarkets[r].endDate
                  /\ \A j \in DOMAIN EvMarkets :
                        Eligible(j) =>
                            /\ ~ClosesBefore(j, r)
                            /\ j < r => ClosesBefore(r, j)

\* Two eligible markets close together, an earlier-placed ineligible one
\* came first, and the first of the two was returned.
C25_Witness ==
    /\ event # None
    /\ active_market # None
    /\ \E i, j \in DOMAIN EvMarkets :
          /\ i < j
          /\ Eligible(i) /\ Eligible(j)
          /\ EvMarkets[i].endDate = EvMarkets[j].endDate
          /\ active_market[1].market_id = i
          /\ i > 1 /\ ~Eligible(1)

\* The answer to the last resolution call carries a settlement array that
\* parses: outcomePrices as a list, or as a string holding one, of at least
\* two entries whose first is a number or a numeric string.
Settled ==
    /\ answer[1].shape = "object"
    /\ answer[1].outcomePrices.kind \in {"list", "jsonstr"}
    /\ Len(answer[1].outcomePrices.items) >= 2
    /\ answer[1].outcomePrices.items[1].t \in {"num", "numstr"}
FirstPrice == answer[1].outcomePrices.items[1].v

\* C26: get_market_resolution never raises; it returns unresolved when the
\* request fails, the answer does not parse or the market is not closed,
\* and for a closed market with a parseable settlement array it returns
\* yes-won iff the first price exceeds 0.5: true for [0.6, 0.4], false for
\* [0.3, 0.7] and for a first price of exactly 0.5.
C26_ResolutionTernary ==
    answer # None =>
        /\ verdict \in {None, Some(TRUE), Some(FALSE)}
        /\ answer[1].shape # "object" => verdict = None
        /\ (answer[1].shape = "object" /\ answer[1].closed # "true")
               => verdict = None
        /\ (answer[1].closed = "true" /\ Settled) =>
               /\ verdict = Some(FirstPrice > 50)
               /\ FirstPrice = 60 => verdict = Some(TRUE)
               /\ FirstPrice \in {30, 50} => verdict = Some(FALSE)
        /\ (answer[1].closed = "true" /\ answer[1].shape = "object"
              /\ answer[1].outcomePrices.kind \in {"badjson", "plainstr"})
               => verdict = None

\* A closed market settled at exactly one half each: reported as no-won.
C26_Witness ==
    /\ answer # None
    /\ answer[1].closed = "true"
    /\ Settled
    /\ FirstPrice = 50
    /\ verdict = Some(FALSE)

(* ------------------- claims on run_bot: venues and exit ---------------- *)

\* C27: whenever scanner.get_active_market() returns none, at startup or
\* on a later tick, the engine does not terminate; it keeps the venue it
\* holds and goes on to poll again.
C27_NoVenueIsRetried ==
    [][((Startup \/ PollScanner) /\ market' = None) =>
          /\ pc' \notin {"no_market", "exited", "halted", "crashed"}
          /\ state_market' = state_market
          /\ last_market_id' = last_market_id]_vars

(* ------------------ claims on OrderManager under threads --------------- *)

\* C28: once every call has returned, whatever the interleaving, the
\* session and daily accumulators hold the sum of the deltas recorded, and
\* the breaker is tripped if that sum has reached the daily limit.
C28_NoDeltaLost ==
    (\A t \in ThreadIds : threads[t].at = "done") =>
        /\ session_pnl = day_sum
        /\ daily_pnl = day_sum
        /\ TripCondition(day_sum) => circuit_breaker_tripped

\* C29: whenever run_bot has left its loop (on the breaker, on a keyboard
\* interrupt or on an exception escaping a tick) the feed has been stopped
\* and cancel_all_orders has been called and has returned, whether its
\* client raised or not.
C29_CleanupOnExit ==
    pc \in {"halted", "exited", "crashed"} =>
        /\ running = FALSE
        /\ final_cancel \in {Some(TRUE), Some(FALSE)}

\* The loop was left on an exception and the client's cancel_all raised
\* during the cleanup.
C29_Witness ==
    /\ pc = "crashed"
    /\ running = FALSE
    /\ final_cancel = Some(TRUE)

(* ---------------------- claims on the quote pair ----------------------- *)

\* The intents of the last evaluation that are for the given outcome.
IntentsFor(o) == {i \in DOMAIN quotes : quotes[i].outcome = o}
\* The bid of the claim for each side, in 1/10000 before rounding.
RawBid(o) == IF o = "Yes" THEN quote_args[1].mid - quote_args[1].spread
             ELSE (10000 - quote_args[1].mid) - quote_args[1].spread
MayQuote(o) == IF o = "Yes" THEN quote_args[1].may_yes
               ELSE quote_args[1].may_no
\* The rounded bid lies in [0.01, 0.99]: the raw bid lies in
\* [0.0095, 0.9905], the inputs having no decimal ties.
BidInRange(o) == RawBid(o) > 95 /\ RawBid(o) < 9905

\* Each side has an intent iff it is permitted, its bid is in range and the
\* size is at least 1, and the intent is a BUY of that size at the bid
\* rounded to 3 decimals.
SidesAsClaimed ==
    \A o \in {"Yes", "No"} :
        /\ Cardinality(IntentsFor(o)) <= 1
        /\ IntentsFor(o) # {}
              <=> /\ MayQuote(o)
                  /\ BidInRange(o)
                  /\ quote_args[1].size >= 100
        /\ \A i \in IntentsFor(o) :
              /\ quotes[i].side = "BUY"
              /\ quotes[i].size = quote_args[1].size
              /\ 2 * (quotes[i].price * 10 - RawBid(o)) <= 10
              /\ 2 * (RawBid(o) - quotes[i].price * 10) <= 10
\* The example: mid 0.52, spread 0.03.
ExampleAsClaimed ==
    (quote_args[1].mid = 5200 /\ quote_args[1].spread = 300
        /\ quote_args[1].size >= 100) =>
        /\ \A i \in IntentsFor("Yes") : quotes[i].price = 490
        /\ \A i \in IntentsFor("No") : quotes[i].price = 450
        /\ (quote_args[1].may_yes /\ quote_args[1].may_no) => Len(quotes) = 2
        /\ (quote_args[1].may_yes # quote_args[1].may_no) => Len(quotes) = 1

\* C30: for a mid strictly between 0 and 1 a buy intent is emitted for a
\* side iff its flag is set, its rounded bid lies in [0.01, 0.99] and the
\* size is at least 1, at most one per side; mid 0.52 and spread 0.03 give
\* the bids 0.490 and 0.450, two intents with both sides permitted and one
\* when the inventory of one side has reached its cap (a side is permitted
\* while its inventory is below its cap).
C30_QuotePair ==
    /\ [][MakeQuotes =>
            /\ quote_args'[1].may_yes <=> inventory_yes < max_inventory_yes
            /\ quote_args'[1].may_no <=> inventory_no < max_inventory_no]_vars
    /\ []((quote_args # None /\ quote_args[1].mid > 0
             /\ quote_args[1].mid < 10000)
          => (SidesAsClaimed /\ ExampleAsClaimed))

\* The Yes inventory is at its cap and the example's pair gave the No bid
\* alone.
C30_Witness ==
    /\ quote_args # None
    /\ quote_args[1].mid = 5200 /\ quote_args[1].spread = 300
    /\ inventory_yes >= max_inventory_yes
    /\ inventory_no < max_inventory_no
    /\ Len(quotes) = 1
    /\ quotes[1].outcome = "No"
    /\ quotes[1].price = 450

(* ------------------ claims on the feeds: stop and restart -------------- *)

\* C31: once stop() has been called and start() not called again (_running
\* is false), no receive loop enters a new connection.
C31_NoConnectionAfterStop ==
    [][\A i \in LoopIds :
          (loops[i] # "connected" /\ loops'[i] = "connected") => running]_vars

\* A receive loop thread that has been started and has not ended.
AliveLoops == {i \in LoopIds : loops[i] \notin {"unborn", "dead"}}

\* C32: at most one receive loop is alive per feed, whatever start() and
\* stop() calls have been made.
C32_OneLoopAlive == Cardinality(AliveLoops) <= 1

\* C33: a start() that starts the feed leaves the reconnect delay at the
\* base value, whatever failures came before.
C33_StartResetsBackoff ==
    [][(~running /\ running') => backoff' = Base]_vars

(* ------------------ claims on run_bot: bookkeeping ---------------------- *)

C35_SignalIsValidOrder ==
    signal # None =>
        /\ signal[1].side = "BUY"
        /\ signal[1].size >= 100
        /\ signal[1].ev[1] * 100 >= EV_THRESHOLD * signal[1].ev[2]
        /\ signal[1].price > 0
        /\ signal[1].price < 1000

(* ------------------ claims on the ticker feed: reads -------------------- *)

\* Between two messages _prev_price is the price that was current before the
\* latest accepted message.
PrevIsPrevious ==
    threads.recv.at = "idle" =>
        \/ feed_price = None /\ prev_price = None
        \/ feed_price # None /\ Rank(prev_price) + 1 = Rank(feed_price)

\* A payload whose price is missing or not positive changes neither price.
RejectedChangesNothing ==
    (ReceiveMessage /\ ~ TickerAccepts(last_msg'[1])) =>
        /\ UNCHANGED <<feed_price, prev_price>>
        /\ threads'.recv.at = "idle"

\* The value the last price_change_pct call returned is unknown or the
\* percent change from one price of the stream to the next.
ReturnedChangeIsConsecutive ==
    LET ret == threads.reader.ret
    IN  ret # "unset" =>
            \/ ret = None
            \/ \E k \in 1..(Len(TickerStream) - 1) :
                  ret = Some(<<(TickerStream[k + 1] - TickerStream[k]) * 100,
                               TickerStream[k]>>)

\* C36: _prev_price is the price before the latest accepted message,
\* rejected payloads change nothing, and every value price_change_pct
\* returns to the engine loop is unknown or the change between two
\* consecutively accepted prices, under every interleaving with the receive
\* path.
C36_TickerSnapshot ==
    /\ [](PrevIsPrevious /\ ReturnedChangeIsConsecutive)
    /\ [][RejectedChangesNothing]_vars

====
